---- MODULE Spec2Model ----
(***************************************************************************)
(* Model of python_template/web.py: a FastHTML application object with one *)
(* route, GET "/", whose handler returns a fixed document tree, and a      *)
(* __main__ block that hands the application to uvicorn on 0.0.0.0:5001.   *)
(*                                                                         *)
(* A process executes the module top to bottom (pc names the next line).   *)
(* Several processes share one host, so they compete for the port.  A      *)
(* serving process accepts requests; each request is dispatched through    *)
(* the application's route table, the handler is called, and the returned  *)
(* tree is rendered to a response.  Text is modelled as a sequence of      *)
(* words and a serialized page as a sequence of tokens (open tag, word,    *)
(* close tag), so "contains the substring" is "contains the words          *)
(* contiguously".  Attribute values are word sequences too, which makes a  *)
(* class attribute the list of its classes.                                *)
(*                                                                         *)
(* web.py only calls into FastHTML, Starlette's router and uvicorn.  What  *)
(* those calls do is modelled by the libraries' behaviour: a route matches *)
(* on path and method (404 / 405 otherwise), a returned tree is serialized *)
(* in document order with text escaped and sent as 200 text/html, the      *)
(* application's hdrs are added only when a fragment is wrapped into a     *)
(* page, and binding a held port fails.                                    *)
(***************************************************************************)
EXTENDS Integers, Sequences, FiniteSets, TLC

\* ---------------------------------------------------------------- bounds
NumProcs == 2
MaxReqs == 2

Procs == 1..NumProcs
ReqIds == 1..MaxReqs
Methods == {"GET", "POST"}
Paths == {"/", "/missing"}
ModuleNames == {"__main__", "python_template.web"}

VARIABLES
    name,       \* name[p]: the module's __name__ in process p
    pc,         \* pc[p]: next top-level statement of the module in process p
    app,        \* app[p]: the module-level application object (NoApp before line 15)
    built,      \* built[p]: how many times FastHTML(...) has been constructed in p
    sockets,    \* listening sockets of the host: records [host, port, owner]
    reqs        \* reqs[i]: request i, from arrival to response

vars == <<name, pc, app, built, sockets, reqs>>

\* ------------------------------------------------------- document trees
\* An FT node.  A text node has tag "#text" and carries its words.
Node(tag, attrs, children) ==
    [tag |-> tag, attrs |-> attrs, children |-> children, text |-> <<>>]

Text(words) ==
    [tag |-> "#text", attrs |-> <<>>, children |-> <<>>, text |-> words]

Html(children) == Node("html", <<>>, children)
\* Head(...) of the source; renamed because Sequences defines Head
HeadEl(children) == Node("head", <<>>, children)
Body(children) == Node("body", <<>>, children)
Title(words) == Node("title", <<>>, <<Text(words)>>)
Meta(attrs) == Node("meta", attrs, <<>>)
Link(rel, href) == Node("link", <<<<"rel", <<rel>>>>, <<"href", <<href>>>>>>, <<>>)
Div(children, cls) == Node("div", <<<<"class", cls>>>>, children)
\* mutant: the cls keyword is lost
H1NoClass(words, cls) == Node("h1", <<>>, <<Text(words)>>)
H1(words, cls) == Node("h1", <<<<"class", cls>>>>, <<Text(words)>>)
P(words, cls) == Node("p", <<<<"class", cls>>>>, <<Text(words)>>)

TailwindCDN == "https://cdn.tailwindcss.com"

NoApp == [hdrs |-> <<>>, routes |-> <<>>, made |-> FALSE]

\* app = FastHTML(hdrs=(Link(rel="stylesheet", href=...),)): headers kept, no routes yet
FastHTML(hdrs) == [hdrs |-> hdrs, routes |-> <<>>, made |-> TRUE]

AppHdrs == <<Link("stylesheet", TailwindCDN)>>

\* ----------------------------------------------------- the root handler
\* the page of lines 20-36 with the title and the heading left open (used by mutants)
HomeWith(title, heading) ==
    Html(<<
        HeadEl(<<
            Title(title),
            Meta(<<<<"charset", <<"utf-8">>>>>>),
            Meta(<<<<"name", <<"viewport">>>>,
                   <<"content", <<"width=device-width,", "initial-scale=1">>>>>>)
        >>),
        Body(<<
            Div(<<
                Node("h1", <<<<"class", <<"text-4xl", "font-bold", "text-blue-600",
                                          "text-center">>>>>>, <<Text(heading)>>),
                Node("p", <<<<"class", <<"text-lg", "text-gray-700", "text-center",
                                         "mt-4">>>>>>,
                     <<Text(<<"This", "is", "a", "FastHTML", "application", "with",
                              "Tailwind", "CSS", "configured.">>)>>)
            >>, <<"min-h-screen", "flex", "flex-col", "items-center",
                  "justify-center", "bg-gray-100">>)
        >>)
    >>)

\* mutant: the handler keeps a visit count in module state and shows it
homeStateful ==
    HomeWith(<<"Hello", "World", "-", "FastHTML", "with", "Tailwind">>,
             IF \E i \in ReqIds : reqs[i].stage = "done"
             THEN <<"Hello", "again!">>
             ELSE <<"Hello", "World!">>)

\* mutant: the heading text is changed
homeOtherHeading ==
    HomeWith(<<"Hello", "World", "-", "FastHTML", "with", "Tailwind">>,
             <<"Hello,", "World!">>)

\* def home(): the tree built at lines 20-36
home ==
    Html(<<
        HeadEl(<<
            Title(<<"Hello", "World", "-", "FastHTML", "with", "Tailwind">>),
            Meta(<<<<"charset", <<"utf-8">>>>>>),
            Meta(<<<<"name", <<"viewport">>>>,
                   <<"content", <<"width=device-width,", "initial-scale=1">>>>>>)
        >>),
        Body(<<
            Div(<<
                H1(<<"Hello", "World!">>,
                   <<"text-4xl", "font-bold", "text-blue-600", "text-center">>),
                P(<<"This", "is", "a", "FastHTML", "application", "with",
                    "Tailwind", "CSS", "configured.">>,
                  <<"text-lg", "text-gray-700", "text-center", "mt-4">>)
            >>, <<"min-h-screen", "flex", "flex-col", "items-center",
                  "justify-center", "bg-gray-100">>)
        >>)
    >>)

\* mutant: the route is registered under another path
HomeRouteWrongPath == [methods |-> {"GET"}, path |-> "/home", endpoint |-> "home"]

\* @app.get("/") def home: the route added to the application's table
HomeRoute == [methods |-> {"GET"}, path |-> "/", endpoint |-> "home"]

\* the function a route's endpoint names
CallEndpoint(e) == CASE e = "home" -> home

\* mutant: the server listens on the loopback interface only
ListenAddrLoopback == [host |-> "127.0.0.1", port |-> 5001]

\* uvicorn.run(app, host="0.0.0.0", port=5001)
ListenAddr == [host |-> "0.0.0.0", port |-> 5001]

\* ------------------------------------------------------- serialization
VoidTags == {"meta", "link"}

Tok(k, tag, attrs, w) == [k |-> k, tag |-> tag, attrs |-> attrs, w |-> w]
OpenTok(n) == Tok("open", n.tag, n.attrs, "")
CloseTok(n) == Tok("close", n.tag, <<>>, "")
WordTok(w) == Tok("text", "", <<>>, w)
DoctypeTok == Tok("doctype", "html", <<>>, "")

\* text is HTML-escaped on the way out
Escape(w) ==
    CASE w = "&" -> "&amp;"
      [] w = "<" -> "&lt;"
      [] w = ">" -> "&gt;"
      [] OTHER -> w

RECURSIVE Flatten(_)
Flatten(ss) == IF ss = <<>> THEN <<>> ELSE Head(ss) \o Flatten(Tail(ss))

RECURSIVE to_xml(_)
to_xml(n) ==
    IF n.tag = "#text"
    THEN [i \in 1..Len(n.text) |-> WordTok(Escape(n.text[i]))]
    ELSE IF n.tag \in VoidTags
    THEN <<OpenTok(n)>>
    ELSE <<OpenTok(n)>>
         \o Flatten([i \in 1..Len(n.children) |-> to_xml(n.children[i])])
         \o <<CloseTok(n)>>

\* ------------------------------------------- rendering a handler result
\* A handler result that is already an <html> document is sent as it is;
\* only a fragment is wrapped in a page whose head gets the application's hdrs.
IsFullPage(result) == result.tag = "html"

Page(a, result) ==
    IF IsFullPage(result)
    THEN result
    ELSE Html(<<HeadEl(a.hdrs), Body(<<result>>)>>)

NoResp == [status |-> 0, ctype |-> "", body |-> <<>>]

HTMLResponse(a, result) ==
    [status |-> 200, ctype |-> "text/html",
     body |-> <<DoctypeTok>> \o to_xml(Page(a, result))]

ErrorResponse(code) == [status |-> code, ctype |-> "text/plain", body |-> <<>>]

\* ------------------------------------------------------------- routing
\* mutant: a catch-all route, the path is not compared
RouteMatchAnyPath(route, method, path) ==
    IF method \in route.methods THEN "full" ELSE "partial"

\* the route table's test of one route against a request
RouteMatch(route, method, path) ==
    IF path # route.path THEN "none"
    ELSE IF method \in route.methods THEN "full"
    ELSE "partial"

FullMatches(a, method, path) ==
    {i \in 1..Len(a.routes) : RouteMatch(a.routes[i], method, path) = "full"}

PartialMatches(a, method, path) ==
    {i \in 1..Len(a.routes) : RouteMatch(a.routes[i], method, path) = "partial"}

Min(S) == CHOOSE x \in S : \A y \in S : x <= y

\* ---------------------------------------------------------------- state
NoNode == Text(<<>>)

NoReq == [stage |-> "none", proc |-> 0, method |-> "", path |-> "",
          result |-> NoNode, resp |-> NoResp]

Init ==
    /\ name \in [Procs -> ModuleNames]
    /\ pc = [p \in Procs |-> "l15"]
    /\ app = [p \in Procs |-> NoApp]
    /\ built = [p \in Procs |-> 0]
    /\ sockets = {}
    /\ reqs = [i \in ReqIds |-> NoReq]

\* ------------------------------------------------ the module, line by line
\* mutant: the route decorator is not reached before the main block
ConstructSkipsRegister(p) ==
    /\ pc[p] = "l15"
    /\ app' = [app EXCEPT ![p] = FastHTML(AppHdrs)]
    /\ built' = [built EXCEPT ![p] = @ + 1]
    /\ pc' = [pc EXCEPT ![p] = "l39"]
    /\ UNCHANGED <<name, sockets, reqs>>

\* line 15
Construct(p) ==
    /\ pc[p] = "l15"
    /\ app' = [app EXCEPT ![p] = FastHTML(AppHdrs)]
    /\ built' = [built EXCEPT ![p] = @ + 1]
    /\ pc' = [pc EXCEPT ![p] = "l18"]
    /\ UNCHANGED <<name, sockets, reqs>>

\* lines 18-19
Register(p) ==
    /\ pc[p] = "l18"
    /\ app' = [app EXCEPT ![p].routes = Append(@, HomeRoute)]
    /\ pc' = [pc EXCEPT ![p] = "l39"]
    /\ UNCHANGED <<name, built, sockets, reqs>>

\* mutant: the server is started without the __name__ test
MainGuardAlways(p) ==
    /\ pc[p] = "l39"
    /\ pc' = [pc EXCEPT ![p] = "l40"]
    /\ UNCHANGED <<name, app, built, sockets, reqs>>

\* line 39
MainGuard(p) ==
    /\ pc[p] = "l39"
    /\ pc' = [pc EXCEPT ![p] = IF name[p] = "__main__" THEN "l40" ELSE "end"]
    /\ UNCHANGED <<name, app, built, sockets, reqs>>

\* two listening addresses collide: same port, and same host or a wildcard host
Conflicts(s, addr) ==
    /\ s.port = addr.port
    /\ (s.host = addr.host \/ s.host = "0.0.0.0" \/ addr.host = "0.0.0.0")

\* line 40: bind and serve, or fail at startup when the address is taken
uvicorn_run(p) ==
    /\ pc[p] = "l40"
    /\ IF \E s \in sockets : Conflicts(s, ListenAddr)
       THEN /\ pc' = [pc EXCEPT ![p] = "failed"]
            /\ UNCHANGED sockets
       ELSE /\ pc' = [pc EXCEPT ![p] = "serving"]
            /\ sockets' = sockets \cup
                 {[host |-> ListenAddr.host, port |-> ListenAddr.port, owner |-> p]}
    /\ UNCHANGED <<name, app, built, reqs>>

InFlight(p) ==
    {i \in ReqIds : reqs[i].proc = p /\ reqs[i].stage \in {"accepted", "called"}}

\* line 40 returns: the server is stopped once its open requests are answered
Shutdown(p) ==
    /\ pc[p] = "serving"
    /\ InFlight(p) = {}
    /\ sockets' = {s \in sockets : s.owner # p}
    /\ pc' = [pc EXCEPT ![p] = "exited"]
    /\ UNCHANGED <<name, app, built, reqs>>

\* ------------------------------------------------------ request handling
\* a request arrives at the listening process
Accept(p, i, m, path) ==
    /\ pc[p] = "serving"
    /\ reqs[i].stage = "none"
    /\ IF i = 1 THEN TRUE ELSE reqs[i - 1].stage # "none"
    /\ reqs' = [reqs EXCEPT ![i] =
                  [stage |-> "accepted", proc |-> p, method |-> m, path |-> path,
                   result |-> NoNode, resp |-> NoResp]]
    /\ UNCHANGED <<name, pc, app, built, sockets>>

\* mutant: the handler appends to the application's header list on every call
CallHandlerSharing(i) ==
    /\ reqs[i].stage = "accepted"
    /\ LET a == app[reqs[i].proc]
           ms == FullMatches(a, reqs[i].method, reqs[i].path)
       IN /\ ms # {}
          /\ reqs' = [reqs EXCEPT ![i].stage = "called",
                                  ![i].result = CallEndpoint(a.routes[Min(ms)].endpoint)]
          /\ app' = [app EXCEPT ![reqs[i].proc].hdrs =
                        IF Len(@) < 2 THEN Append(@, Link("stylesheet", "/extra.css")) ELSE @]
    /\ UNCHANGED <<name, pc, built, sockets>>

\* the route table has a route for the request: its endpoint is called
CallHandler(i) ==
    /\ reqs[i].stage = "accepted"
    /\ LET a == app[reqs[i].proc]
           ms == FullMatches(a, reqs[i].method, reqs[i].path)
       IN /\ ms # {}
          /\ reqs' = [reqs EXCEPT ![i].stage = "called",
                                  ![i].result = CallEndpoint(a.routes[Min(ms)].endpoint)]
    /\ UNCHANGED <<name, pc, app, built, sockets>>

\* the handler's result is rendered and sent
Respond(i) ==
    /\ reqs[i].stage = "called"
    /\ reqs' = [reqs EXCEPT ![i].stage = "done",
                            ![i].resp = HTMLResponse(app[reqs[i].proc], reqs[i].result)]
    /\ UNCHANGED <<name, pc, app, built, sockets>>

\* no route for the request: 405 when only the method differs, else 404
Reject(i) ==
    /\ reqs[i].stage = "accepted"
    /\ LET a == app[reqs[i].proc]
       IN /\ FullMatches(a, reqs[i].method, reqs[i].path) = {}
          /\ reqs' = [reqs EXCEPT ![i].stage = "done",
                        ![i].resp =
                           IF PartialMatches(a, reqs[i].method, reqs[i].path) # {}
                           THEN ErrorResponse(405)
                           ELSE ErrorResponse(404)]
    /\ UNCHANGED <<name, pc, app, built, sockets>>

Next ==
    \/ \E p \in Procs : Construct(p)
    \/ \E p \in Procs : Register(p)
    \/ \E p \in Procs : MainGuard(p)
    \/ \E p \in Procs : uvicorn_run(p)
    \/ \E p \in Procs : Shutdown(p)
    \/ \E p \in Procs, i \in ReqIds, m \in Methods, path \in Paths : Accept(p, i, m, path)
    \/ \E i \in ReqIds : CallHandler(i)
    \/ \E i \in ReqIds : Respond(i)
    \/ \E i \in ReqIds : Reject(i)

Spec == Init /\ [][Next]_vars

TypeOK ==
    /\ name \in [Procs -> ModuleNames]
    /\ pc \in [Procs -> {"l15", "l18", "l39", "l40", "serving", "failed", "exited", "end"}]
    /\ built \in [Procs -> 0..1]
    /\ \A i \in ReqIds : reqs[i].stage \in {"none", "accepted", "called", "done"}


\* =============================================================== claims
Range(f) == {f[x] : x \in DOMAIN f}

Done(i) == reqs[i].stage = "done"
IsRootGet(i) == reqs[i].method = "GET" /\ reqs[i].path = "/"
\* the root handler has been called for request i
Invoked(i) == reqs[i].stage = "called" \/ (Done(i) /\ reqs[i].result # NoNode)

\* the words occur contiguously as text of the serialized page
Contains(body, words) ==
    \E s \in 1..(Len(body) - Len(words) + 1) :
        \A j \in 1..Len(words) :
            body[s + j - 1].k = "text" /\ body[s + j - 1].w = words[j]

\* the tokens between <head> and </head>
HeadSection(body) ==
    LET o == {i \in 1..Len(body) : body[i].k = "open" /\ body[i].tag = "head"}
        c == {i \in 1..Len(body) : body[i].k = "close" /\ body[i].tag = "head"}
    IN IF o = {} \/ c = {} THEN <<>> ELSE SubSeq(body, Min(o) + 1, Min(c) - 1)

\* some <link rel="stylesheet"> among the tokens has exactly this href
HasStylesheet(toks, href) ==
    \E t \in Range(toks) :
        /\ t.k = "open" /\ t.tag = "link"
        /\ <<"rel", <<"stylesheet">>>> \in Range(t.attrs)
        /\ <<"href", href>> \in Range(t.attrs)

HrefOf(link) == (CHOOSE a \in Range(link.attrs) : a[1] = "href")[2]

\* C1: every answered GET / has status 200 and content type text/html,
\* whatever was served before it.
C1_RootIsHtml200 ==
    \A i \in ReqIds :
        Done(i) /\ IsRootGet(i) =>
            reqs[i].resp.status = 200 /\ reqs[i].resp.ctype = "text/html"

\* a GET / answered after an earlier request for something else was answered
C1_Witness ==
    /\ MaxReqs >= 2
    /\ Done(1) /\ ~IsRootGet(1)
    /\ Done(2) /\ IsRootGet(2) /\ reqs[2].resp.status = 200

\* C2: the head section of the response to GET / holds a stylesheet link
\* whose href is the URL of the head resource the application was built with.
C2_HeadHasConfiguredStylesheet ==
    \A i \in ReqIds :
        Done(i) /\ IsRootGet(i) =>
            \A h \in Range(app[reqs[i].proc].hdrs) :
                HasStylesheet(HeadSection(reqs[i].resp.body), HrefOf(h))

\* C3: a request for a path other than "/" is never answered with 200, and a
\* serving application's route table holds exactly the one route.
C3_OnlyRootIs200 ==
    /\ \A i \in ReqIds :
           Done(i) /\ reqs[i].path # "/" => reqs[i].resp.status # 200
    /\ \A p \in Procs :
           pc[p] = "serving" => Len(app[p].routes) = 1

\* GET /missing was answered, with 404
C3_Witness ==
    \E i \in ReqIds :
        /\ Done(i) /\ reqs[i].method = "GET" /\ reqs[i].path = "/missing"
        /\ reqs[i].resp.status = 404

\* C4: any two invocations of the root handler, wherever they fall in the
\* sequence of requests, returned the same tree, and the trees that were
\* serialized gave the same bytes.
C4_Deterministic ==
    \A i, j \in ReqIds :
        /\ Invoked(i) /\ Invoked(j) => reqs[i].result = reqs[j].result
        /\ Done(i) /\ Invoked(i) /\ Done(j) /\ Invoked(j) =>
               reqs[i].resp.body = reqs[j].resp.body

\* two different requests have each had the handler called and been answered
C4_Witness ==
    \E i, j \in ReqIds :
        i # j /\ Done(i) /\ Invoked(i) /\ Done(j) /\ Invoked(j)

\* C5: the body of the response to GET / contains "Hello World!" and
\* "FastHTML application with Tailwind CSS configured.".
C5_BodyHasTexts ==
    \A i \in ReqIds :
        Done(i) /\ IsRootGet(i) =>
            /\ Contains(reqs[i].resp.body, <<"Hello", "World!">>)
            /\ Contains(reqs[i].resp.body,
                        <<"FastHTML", "application", "with", "Tailwind", "CSS",
                          "configured.">>)

\* a GET / has been answered with a page
C5_Witness ==
    \E i \in ReqIds : Done(i) /\ IsRootGet(i) /\ Len(reqs[i].resp.body) > 0

Listens(p) == [host |-> "0.0.0.0", port |-> 5001, owner |-> p] \in sockets

C6_Inv ==
    /\ \A p \in Procs : pc[p] = "serving" => Listens(p)
    /\ \A s \in sockets : pc[s.owner] = "serving"
    /\ \A s, t \in sockets : s.port = t.port => s = t
    /\ \A p, q \in Procs : pc[p] = "serving" /\ pc[q] = "serving" => p = q

\* a process that leaves line 40 while the port is held has failed and bound nothing
C6_Step ==
    \A p \in Procs :
        pc[p] = "l40" /\ pc'[p] # "l40" /\ (\E s \in sockets : s.port = 5001) =>
            pc'[p] = "failed" /\ sockets' = sockets

\* C6: a process run as main listens on 0.0.0.0:5001; while the socket is
\* held a second process fails to bind, so at most one process listens on 5001.
C6_PortExclusive == []C6_Inv /\ [][C6_Step]_vars

\* one process is listening and another has failed at startup
C6_Witness ==
    \E p, q \in Procs : p # q /\ pc[p] = "serving" /\ Listens(p) /\ pc[q] = "failed"

ServerStates == {"l40", "serving", "failed", "exited"}

\* C7: a process that imports the module builds the application and registers
\* the root route, but never reaches the server runner and never owns a socket;
\* only a process run as main does.
C7_ImportStartsNoServer ==
    \A p \in Procs :
        /\ name[p] # "__main__" =>
              /\ pc[p] \notin ServerStates
              /\ \A s \in sockets : s.owner # p
              /\ \A i \in ReqIds : reqs[i].proc # p
              /\ pc[p] = "end" => app[p].made /\ app[p].routes = <<HomeRoute>>
        /\ pc[p] \in ServerStates => name[p] = "__main__"

\* an importing process has finished loading the module while another serves
C7_Witness ==
    \E p, q \in Procs :
        /\ name[p] # "__main__" /\ pc[p] = "end" /\ app[p].made
        /\ name[q] = "__main__" /\ pc[q] = "serving"

\* what a GET / gets from an application that serves nothing else
AloneResponse == HTMLResponse([FastHTML(AppHdrs) EXCEPT !.routes = <<HomeRoute>>], home)

C8_Step ==
    \A i \in ReqIds :
        reqs'[i] # reqs[i] =>
            /\ app' = app
            /\ \A j \in ReqIds \ {i} : reqs'[j] = reqs[j]
            /\ reqs'[i].stage = "done" /\ reqs'[i].method = "GET" /\ reqs'[i].path = "/"
                  => reqs'[i].resp = AloneResponse

\* C8: every step of handling a request leaves the application object and
\* every other request untouched, and a GET / answered in any interleaving
\* gets the response it would get alone.
C8_Independent == [][C8_Step]_vars

\* two GET / overlapped: the later one was answered while the earlier was still open
C8_Witness ==
    \E i, j \in ReqIds :
        /\ i < j /\ IsRootGet(i) /\ IsRootGet(j)
        /\ reqs[i].stage = "called" /\ Done(j) /\ reqs[j].resp.status = 200

ClassOf(n) == IF \E a \in Range(n.attrs) : a[1] = "class"
              THEN (CHOOSE a \in Range(n.attrs) : a[1] = "class")[2]
              ELSE <<>>
AttrNames(n) == {a[1] : a \in Range(n.attrs)}
Tags(ns) == [k \in 1..Len(ns) |-> ns[k].tag]

Shape(t) ==
    /\ t.tag = "html"
    /\ Tags(t.children) = <<"head", "body">>
    /\ LET hd == t.children[1]
           bd == t.children[2]
       IN /\ Tags(hd.children) = <<"title", "meta", "meta">>
          /\ hd.children[1].children =
                <<Text(<<"Hello", "World", "-", "FastHTML", "with", "Tailwind">>)>>
          /\ "charset" \in AttrNames(hd.children[2])
          /\ <<"name", <<"viewport">>>> \in Range(hd.children[3].attrs)
          /\ Tags(bd.children) = <<"div">>
          /\ LET dv == bd.children[1]
             IN /\ Tags(dv.children) = <<"h1", "p">>
                /\ dv.children[1].children = <<Text(<<"Hello", "World!">>)>>
                /\ Tags(dv.children[2].children) = <<"#text">>
                /\ "text-center" \in Range(ClassOf(dv.children[1]))
                /\ "text-center" \in Range(ClassOf(dv.children[2]))

\* C9: the tree the root handler returns is html(head(title, meta, meta),
\* body(div(h1, p))) with the title "Hello World - FastHTML with Tailwind",
\* a charset and a viewport meta, the heading "Hello World!", and the
\* text-center class on both the heading and the paragraph.
C9_TreeShape ==
    \A i \in ReqIds : Invoked(i) => Shape(reqs[i].result)

\* the handler has returned its tree and the response is not yet sent
C9_Witness ==
    \E i \in ReqIds : reqs[i].stage = "called" /\ reqs[i].result.tag = "html"

\* C10: the application is constructed once per process; a process at or past
\* the server runner has constructed it and registered the root route; the
\* root handler is called only for a GET / received by a process run as main
\* whose server has started.
C10_StartupOrder ==
    /\ \A p \in Procs :
          /\ built[p] <= 1
          /\ app[p].made <=> built[p] = 1
          /\ pc[p] \in ServerStates =>
                /\ built[p] = 1
                /\ HomeRoute \in Range(app[p].routes)
    /\ \A i \in ReqIds :
          Invoked(i) =>
              /\ IsRootGet(i)
              /\ name[reqs[i].proc] = "__main__"
              /\ pc[reqs[i].proc] \in {"serving", "exited"}

\* a process run as main is serving and its handler has been called
C10_Witness ==
    \E i \in ReqIds :
        /\ Invoked(i) /\ pc[reqs[i].proc] = "serving"
        /\ built[reqs[i].proc] = 1

====
